---- MODULE Spec2Model ----
(***************************************************************************)
(* The patient information extractor of src/app.py: a Streamlit script.    *)
(* Every user interaction (editing the text area, pressing a button) runs  *)
(* the script top to bottom against the session's st.session_state.  The   *)
(* language-model chain, the rendering calls and the file system are the   *)
(* environment: each can return or raise.                                  *)
(*                                                                         *)
(* Spec     one browser session; a script run is one atomic step.          *)
(* SpecTwo  two sessions, each script run in its own thread: the runs      *)
(*          interleave at the two operations on the shared file, the       *)
(*          truncating open and the write that is flushed on close.        *)
(***************************************************************************)
EXTENDS Integers, Sequences, FiniteSets, TLC

\* Bounds: the number of records a session may hold, and the number two
\* sessions running side by side may hold together.
MaxRecords == 3

MaxTotal == 2

Sessions == {1, 2}

\* A str is a sequence of one-character strings.
Whitespace == {" ", "\t", "\n"}

\* What the user may have typed into the text area.
Texts == {<<>>, <<" ">>, <<" ", "a">>}

\* Optional[str]: <<>> is None, <<v>> is the value v.
None == <<>>

PatientInfo(primary_symptom, severity, duration, associated_symptoms, medical_history) ==
    [primary_symptom |-> primary_symptom, severity |-> severity, duration |-> duration,
     associated_symptoms |-> associated_symptoms, medical_history |-> medical_history]

\* PatientInfo(): every field at its default.
DefaultPatientInfo == PatientInfo(None, None, None, <<>>, <<>>)

\* The PatientInfo objects the chain's parser hands back in the model.
Infos == {DefaultPatientInfo,
          PatientInfo(<<"headache">>, None, <<"3 days">>, <<"nausea">>, <<>>)}

\* extraction_chain.invoke: <<>> when it raises, <<info>> when it returns info.
ChainOutcomes == {<<>>} \cup {<<i>> : i \in Infos}

VARIABLES
    session_state,  \* per session: [patient_id, patients_data]
    text_area,      \* per session: the text area's content
    file,           \* the text of all_patients_data.json (<<>>: absent or empty)
    pc,             \* per session: "idle", "writing" (file open), "crashed"
    run             \* what the latest script run did and showed

vars == <<session_state, text_area, file, pc, run>>

----------------------------------------------------------------------------
\* str.strip()

RECURSIVE lstrip(_)
lstrip(t) ==
    IF t /= <<>> /\ Head(t) \in Whitespace THEN lstrip(Tail(t)) ELSE t

RECURSIVE rstrip(_)
rstrip(t) ==
    IF t /= <<>> /\ t[Len(t)] \in Whitespace THEN rstrip(SubSeq(t, 1, Len(t) - 1)) ELSE t

\* Variant: the input is tested as typed, not stripped.
strip_identity(t) == t

strip(t) == rstrip(lstrip(t))

----------------------------------------------------------------------------
\* json.dumps(obj, indent=2, ensure_ascii=False), as the sequence of the
\* text's pieces: punctuation, newline-and-indent, literals.

RECURSIVE Flatten(_)
Flatten(ss) == IF ss = <<>> THEN <<>> ELSE Head(ss) \o Flatten(Tail(ss))

Indent(n) == IF n = 0 THEN "\n" ELSE IF n = 1 THEN "\n  " ELSE IF n = 2 THEN "\n    "
             ELSE IF n = 3 THEN "\n      " ELSE "\n        "

\* A str atom: quoted, with the JSON escapes.
EscapeChar(c) ==
    IF c = "\"" THEN "\\\"" ELSE IF c = "\\" THEN "\\\\"
    ELSE IF c = "\n" THEN "\\n" ELSE IF c = "\t" THEN "\\t" ELSE c

dumps_chars(t) == <<"\"">> \o [i \in 1..Len(t) |-> EscapeChar(t[i])] \o <<"\"">>

dumps_str(v) == <<"\"" \o v \o "\"">>

dumps_optional(o) == IF o = None THEN <<"null">> ELSE dumps_str(o[1])

\* A container: "[]" when empty, else its items one per line, comma-separated.
dumps_items(open, close, items, n) ==
    IF items = <<>> THEN <<open \o close>>
    ELSE <<open>>
         \o Flatten([i \in 1..Len(items) |->
                        <<Indent(n + 1)>> \o items[i]
                        \o (IF i < Len(items) THEN <<",">> ELSE <<>>)])
         \o <<Indent(n), close>>

dumps_list(l, n) == dumps_items("[", "]", [i \in 1..Len(l) |-> dumps_str(l[i])], n)

dumps_info(d, n) ==
    dumps_items("{", "}",
        << <<"\"primary_symptom\": ">> \o dumps_optional(d.primary_symptom),
           <<"\"severity\": ">> \o dumps_optional(d.severity),
           <<"\"duration\": ">> \o dumps_optional(d.duration),
           <<"\"associated_symptoms\": ">> \o dumps_list(d.associated_symptoms, n + 1),
           <<"\"medical_history\": ">> \o dumps_list(d.medical_history, n + 1) >>, n)

dumps_entry(e, n) ==
    dumps_items("{", "}",
        << <<"\"id\": ", ToString(e.id)>>,
           <<"\"patient_text\": ">> \o dumps_chars(e.patient_text),
           <<"\"extracted_info\": ">> \o dumps_info(e.extracted_info, n + 1) >>, n)

dumps(data) == dumps_items("[", "]", [i \in 1..Len(data) |-> dumps_entry(data[i], 1)], 0)

----------------------------------------------------------------------------
\* The session's st.session_state and the records it holds.

SessionState(patient_id, patients_data) ==
    [patient_id |-> patient_id, patients_data |-> patients_data]

\* result.dict(): the model's fields as a plain dict, the lists copied.
dict(result) ==
    [primary_symptom |-> result.primary_symptom,
     severity |-> result.severity,
     duration |-> result.duration,
     associated_symptoms |-> [i \in 1..Len(result.associated_symptoms) |-> result.associated_symptoms[i]],
     medical_history |-> [i \in 1..Len(result.medical_history) |-> result.medical_history[i]]]

entry(ss, patient_text, result_dict) ==
    [id |-> ss.patient_id, patient_text |-> patient_text, extracted_info |-> result_dict]

\* Variant: the counter is not advanced.
AppendEntry_same_id(ss, patient_text, result_dict) ==
    SessionState(ss.patient_id,
                 Append(ss.patients_data, entry(ss, patient_text, result_dict)))

\* Variant: the entry is put in front (most recent first).
AppendEntry_first(ss, patient_text, result_dict) ==
    SessionState(ss.patient_id + 1,
                 <<entry(ss, patient_text, result_dict)>> \o ss.patients_data)

\* patients_data.append(entry); patient_id += 1
AppendEntry(ss, patient_text, result_dict) ==
    SessionState(ss.patient_id + 1,
                 Append(ss.patients_data, entry(ss, patient_text, result_dict)))

\* Variant: only the new entry is dumped.
SavedData_newest(ss) == <<ss.patients_data[Len(ss.patients_data)]>>

\* The object json.dump is given.
SavedData(ss) == ss.patients_data

\* The download button is rendered only when the store is not empty.
DownloadOffered(ss) == ss.patients_data /= <<>>

\* Variant: json.dumps without indent=2.
DownloadData_compact(ss) ==
    SelectSeq(dumps(ss.patients_data), LAMBDA x : x \notin {Indent(n) : n \in 0..4})

\* The data the download button carries.
DownloadData(ss) == dumps(ss.patients_data)

TotalRecords ==
    Len(session_state[1].patients_data) + Len(session_state[2].patients_data)

----------------------------------------------------------------------------
\* The file: open(..., "w") truncates; the handle then writes from offset 0,
\* over whatever another handle has put there since.

open_w(f) == <<>>

\* Variant: the handle appends (mode "a").
write_at_end(f, text) == f \o text

write(f, text) == text \o SubSeq(f, Len(text) + 1, Len(f))

\* How json.dump and the close end: the whole text written, or an error with
\* nothing of the text in the file, or with the first half of it.
DumpOutcomes == {"ok", "nothing", "half"}

Written(text, outcome) ==
    IF outcome = "ok" THEN text
    ELSE IF outcome = "half" THEN SubSeq(text, 1, Len(text) \div 2)
    ELSE <<>>

----------------------------------------------------------------------------
\* The record of a script run: who ran it, on which button, whether the chain
\* was invoked and what it returned, the messages shown (st.warning,
\* st.success, st.error), the step that raised, the data a download carried,
\* and how the run before it ended.

\* How a run ended: "none", "warning", or the step that raised.
Ending(r) == IF "warning" \in r.shown THEN "warning" ELSE r.failed

Run(s, clicked, invoked, result, shown, failed, exported) ==
    [session |-> s, clicked |-> clicked, invoked |-> invoked, result |-> result,
     shown |-> shown, failed |-> failed, exported |-> exported,
     previous |-> Ending(run)]

Quiet(s, clicked) == Run(s, clicked, FALSE, <<>>, {}, "none", <<>>)

\* Variant: a failed extraction is recorded with a default PatientInfo.
except_handler_fallback(ss, patient_text, shown, stage) ==
    [session_state |-> IF stage = "invoke"
                       THEN AppendEntry(ss, patient_text, dict(DefaultPatientInfo))
                       ELSE ss,
     shown |-> shown \cup {"error"}, failed |-> stage, crashed |-> FALSE]

\* Variant: the handler takes the new entry back.
except_handler_rollback(ss, patient_text, shown, stage) ==
    [session_state |-> IF stage = "invoke" THEN ss
                       ELSE SessionState(ss.patient_id - 1,
                                         SubSeq(ss.patients_data, 1,
                                                Len(ss.patients_data) - 1)),
     shown |-> shown \cup {"error"}, failed |-> stage, crashed |-> FALSE]

\* except Exception as e: st.error(...)
except_handler(ss, patient_text, shown, stage) ==
    [session_state |-> ss, shown |-> shown \cup {"error"}, failed |-> stage,
     crashed |-> FALSE]

\* Variant: only the chain call is inside the try.
Catches_chain_only(stage) == stage = "invoke"

\* except Exception: every exception raised inside the try is caught.
Catches(stage) == TRUE

Raise(ss, patient_text, shown, stage) ==
    IF Catches(stage) THEN except_handler(ss, patient_text, shown, stage)
    ELSE [session_state |-> ss, shown |-> shown, failed |-> stage, crashed |-> TRUE]

\* The try block after the chain has returned result, up to the point where
\* the file is open: fault is the step that raises ("none": the file is open).
AfterInvoke(ss, patient_text, result, fault) ==
    LET result_dict == dict(result)
        appended == AppendEntry(ss, patient_text, result_dict)
        shown == {"success"}
    IN  IF fault \in {"render", "open"}
        THEN Raise(appended, patient_text, shown, fault)
        ELSE [session_state |-> appended, shown |-> shown, failed |-> "none",
              crashed |-> FALSE]

\* Variant: the counter is advanced before the chain is invoked.
TryBlock_count_first(ss, patient_text, r, fault) ==
    IF r = <<>>
    THEN Raise(SessionState(ss.patient_id + 1, ss.patients_data), patient_text, {}, "invoke")
    ELSE AfterInvoke(ss, patient_text, r[1], fault)

\* The try block up to that point, on the chain's outcome r.
TryBlock(ss, patient_text, r, fault) ==
    IF r = <<>>
    THEN Raise(ss, patient_text, {}, "invoke")
    ELSE AfterInvoke(ss, patient_text, r[1], fault)

\* json.dump and the close of the file, which is open.
DumpBlock(ss, patient_text, outcome) ==
    IF outcome = "ok"
    THEN [session_state |-> ss, shown |-> {"success"}, failed |-> "none",
          crashed |-> FALSE]
    ELSE Raise(ss, patient_text, {"success"}, "dump")

----------------------------------------------------------------------------
Init ==
    /\ session_state = [s \in Sessions |-> SessionState(1, <<>>)]
    /\ text_area = [s \in Sessions |-> <<>>]
    /\ file = <<>>
    /\ pc = [s \in Sessions |-> "idle"]
    /\ run = [session |-> 1, clicked |-> "none", invoked |-> FALSE, result |-> <<>>,
              shown |-> {}, failed |-> "none", exported |-> <<>>,
              previous |-> "none"]

\* The user edits the text area: the script reruns with no button pressed.
ChangeText(s, t) ==
    /\ pc[s] = "idle"
    /\ t /= text_area[s]
    /\ text_area' = [text_area EXCEPT ![s] = t]
    /\ run' = Quiet(s, "none")
    /\ UNCHANGED <<session_state, file, pc>>

\* "Clear Input": the run's local patient_text becomes "", and nothing reads it.
ClearInput(s) ==
    /\ pc[s] = "idle"
    /\ run' = Quiet(s, "clear")
    /\ UNCHANGED <<session_state, text_area, file, pc>>

\* "Download JSON": the browser takes the data the button carries.
DownloadJSON(s) ==
    /\ pc[s] = "idle"
    /\ DownloadOffered(session_state[s])
    /\ run' = Run(s, "download", FALSE, <<>>, {}, "none", DownloadData(session_state[s]))
    /\ UNCHANGED <<session_state, text_area, file, pc>>

\* "Extract Details" on blank input: st.warning, nothing else.
Warn(s) ==
    /\ strip(text_area[s]) = <<>>
    /\ run' = Run(s, "extract", FALSE, <<>>, {"warning"}, "none", <<>>)
    /\ UNCHANGED <<session_state, text_area, file, pc>>

\* The extraction block on the chain's outcome r. fault names the step that
\* raises before the file is open ("none": it is opened). With whole, the
\* dump follows in the same step and ends as outcome says; without, the step
\* ends with the file open and truncated.
Extract(s, r, fault, whole, outcome) ==
    /\ strip(text_area[s]) /= <<>>
    /\ r /= <<>> => Len(session_state[s].patients_data) < MaxRecords
    /\ LET patient_text == text_area[s]
           t == TryBlock(session_state[s], patient_text, r, fault)
           opened == ~t.crashed /\ t.failed = "none"
           end == IF opened /\ whole
                  THEN DumpBlock(t.session_state, patient_text, outcome)
                  ELSE t
       IN  /\ session_state' = [session_state EXCEPT ![s] = end.session_state]
           /\ file' = IF ~opened THEN file
                      ELSE IF ~whole THEN open_w(file)
                      ELSE write(open_w(file),
                                 Written(dumps(SavedData(t.session_state)), outcome))
           /\ pc' = [pc EXCEPT ![s] = IF end.crashed THEN "crashed"
                                      ELSE IF opened /\ ~whole THEN "writing"
                                      ELSE "idle"]
           /\ run' = Run(s, "extract", TRUE, r, end.shown, end.failed, <<>>)
    /\ UNCHANGED text_area

\* The chain's outcome with the step that then raises, if one does.
Faults == {<<r, f>> : r \in ChainOutcomes, f \in {"none", "render", "open"}}
              \ {<<<<>>, f>> : f \in {"render", "open"}}

\* "Extract Details", one session: the script run is one step.
ExtractDetails(s) ==
    /\ pc[s] = "idle"
    /\ \/ Warn(s)
       \/ \E rf \in Faults, outcome \in DumpOutcomes :
              /\ (rf[1] = <<>> \/ rf[2] /= "none") => outcome = "ok"
              /\ Extract(s, rf[1], rf[2], TRUE, outcome)

\* "Extract Details", sessions in parallel: the run up to the open of the file.
ExtractOpen(s) ==
    /\ pc[s] = "idle"
    /\ \/ Warn(s)
       \/ \E rf \in Faults :
              /\ rf[1] /= <<>> => TotalRecords < MaxTotal
              /\ Extract(s, rf[1], rf[2], FALSE, "ok")

\* ... and the rest of that run: json.dump through the handle, and its close.
ExtractDump(s) ==
    /\ pc[s] = "writing"
    /\ \E outcome \in DumpOutcomes :
          LET ss == session_state[s]
              end == DumpBlock(ss, text_area[s], outcome)
          IN  /\ session_state' = [session_state EXCEPT ![s] = end.session_state]
              /\ file' = write(file, Written(dumps(SavedData(ss)), outcome))
              /\ pc' = [pc EXCEPT ![s] = IF end.crashed THEN "crashed" ELSE "idle"]
              /\ run' = Run(s, "extract", TRUE,
                            <<ss.patients_data[Len(ss.patients_data)].extracted_info>>,
                            end.shown, end.failed, <<>>)
    /\ UNCHANGED text_area

Next ==
    \/ \E t \in Texts : ChangeText(1, t)
    \/ ClearInput(1)
    \/ DownloadJSON(1)
    \/ ExtractDetails(1)

Spec == Init /\ [][Next]_vars

NextTwo ==
    \E s \in Sessions :
        \/ \E t \in Texts : ChangeText(s, t)
        \/ ClearInput(s)
        \/ DownloadJSON(s)
        \/ ExtractOpen(s)
        \/ ExtractDump(s)

SpecTwo == Init /\ [][NextTwo]_vars

----------------------------------------------------------------------------
\* What the properties speak of.

patients_data(s) == session_state[s].patients_data

patient_id(s) == session_state[s].patient_id

\* Empty or whitespace-only.
Blank(t) == \A i \in 1..Len(t) : t[i] \in Whitespace

IsPrefix(a, b) == Len(a) <= Len(b) /\ SubSeq(b, 1, Len(a)) = a

MaxId(data) == IF data = <<>> THEN 0 ELSE data[Len(data)].id

\* This step is session s's script run on "Extract Details".
ExtractStep(s) == run'.session = s /\ run'.clicked = "extract"

\* ... in which the chain was called and returned a result.
ExtractionSucceeded(s) == ExtractStep(s) /\ run'.invoked /\ run'.result /= <<>>

\* ... in which the chain was called and raised.
ExtractionFailed(s) == ExtractStep(s) /\ run'.invoked /\ run'.result = <<>>

\* ... in which a record was appended.
Appended(s) == ExtractStep(s) /\ Len(patients_data(s)') = Len(patients_data(s)) + 1

\* ... in which the write of the file failed, at its open or after it.
WriteFailed(s) == ExtractStep(s) /\ run'.failed \in {"open", "dump"}

\* The record the extraction block builds from the input and the result.
NewRecord(s) ==
    [id |-> MaxId(patients_data(s)) + 1,
     patient_text |-> text_area[s],
     extracted_info |-> run'.result[1]]

----------------------------------------------------------------------------
\* One session (Spec).

C1_AppendStep ==
    \A s \in Sessions :
        ExtractionSucceeded(s) /\ ~Blank(text_area[s]) =>
            patients_data(s)' = Append(patients_data(s), NewRecord(s))

C1_Ids ==
    \A s \in Sessions :
        /\ \A i \in 1..Len(patients_data(s)) : patients_data(s)[i].id = i
        /\ patient_id(s) = Len(patients_data(s)) + 1

\* C1: on non-blank input a succeeding extraction call appends exactly one
\* record, holding the input text verbatim and the chain's result, with
\* id = previous maximum id + 1 (1 for an empty store); hence the ids of a
\* store are always 1, 2, ... in insertion order, and the next id to assign
\* is larger than every id assigned.
C1_OneRecordNextId == []C1_Ids /\ [][C1_AppendStep]_vars

\* C1, witness: a second record, id 2, with the text as typed (its leading
\* blank kept) and the chain's result.
C1_Witness ==
    /\ run.clicked = "extract" /\ run.result /= <<>> /\ run.failed = "none"
    /\ Len(patients_data(1)) = 2
    /\ patients_data(1)[2].id = 2
    /\ patients_data(1)[2].patient_text = <<" ", "a">>
    /\ patients_data(1)[2].extracted_info /= DefaultPatientInfo

C2_BlankStep ==
    \A s \in Sessions :
        ExtractStep(s) /\ Blank(text_area[s]) =>
            /\ ~run'.invoked
            /\ session_state' = session_state
            /\ file' = file
            /\ run'.shown = {"warning"}

\* C2: "Extract Details" on empty or whitespace-only input does not call the
\* chain and changes neither the store, nor the counter, nor the file; a
\* warning is all it shows.
C2_BlankInputIgnored == [][C2_BlankStep]_vars

\* C2, witness: the warning, on whitespace-only input, with a record stored.
C2_Witness ==
    /\ run.clicked = "extract" /\ run.shown = {"warning"} /\ ~run.invoked
    /\ text_area[1] = <<" ">>
    /\ patients_data(1) /= <<>>

C3_FailedStep ==
    \A s \in Sessions :
        ExtractionFailed(s) =>
            /\ session_state' = session_state
            /\ file' = file

\* C3: when the chain (the call or the parse of its answer) raises, the
\* store, the counter and the file stay as they were.
C3_FailureLeavesStore == [][C3_FailedStep]_vars

\* C3, witness: a failed extraction after a saved one.
C3_Witness ==
    /\ run.clicked = "extract" /\ run.invoked /\ run.result = <<>>
    /\ run.failed = "invoke"
    /\ Len(patients_data(1)) = 1
    /\ patient_id(1) = 2
    /\ file = dumps(patients_data(1))

C4_FallbackStep ==
    \A s \in Sessions :
        ExtractionFailed(s) =>
            /\ "error" \in run'.shown
            /\ patients_data(s)' =
                   Append(patients_data(s),
                          [id |-> MaxId(patients_data(s)) + 1,
                           patient_text |-> text_area[s],
                           extracted_info |-> DefaultPatientInfo])

\* C4 as stated: when the chain raises, the error is shown and a record with
\* a default PatientInfo is appended all the same.
C4_FallbackRecord == [][C4_FallbackStep]_vars

C4_NoRecordStep ==
    \A s \in Sessions :
        ExtractionFailed(s) =>
            /\ run'.shown = {"error"}
            /\ pc'[s] = "idle"
            /\ patients_data(s)' = patients_data(s)

\* C4, amended: when the chain raises, the error is caught and shown (and no
\* success message with it), and no record is created: the store holds the
\* records it held, none of them altered.
C4_ErrorShownNoRecord == [][C4_NoRecordStep]_vars

\* C4, witness: the error shown on non-blank input, and the store empty.
C4_Witness ==
    /\ run.clicked = "extract" /\ run.invoked /\ run.result = <<>>
    /\ run.shown = {"error"}
    /\ text_area[1] = <<" ", "a">>
    /\ patients_data(1) = <<>>

C5_AppendedStep ==
    \A s \in Sessions :
        Appended(s) => file' = dumps(patients_data(s)')

C5_SavedStep ==
    \A s \in Sessions :
        Appended(s) /\ run'.failed = "none" =>
            file' = dumps(patients_data(s)')

C6_ExportStep ==
    \A s \in Sessions :
        /\ Appended(s) /\ run'.failed = "none" =>
               /\ DownloadOffered(session_state[s]')
               /\ DownloadData(session_state[s]') = file'
        /\ run'.session = s /\ run'.clicked = "download"
             /\ file = dumps(patients_data(s)) =>
               run'.exported = file'

C7_PrefixStep ==
    \A s \in Sessions : IsPrefix(patients_data(s), patients_data(s)')

\* C7: the store is append-only and its records immutable: over every step
\* (extract however it ends, clear, download, rerun) the old store is a
\* prefix of the new one.
C7_AppendOnly == [][C7_PrefixStep]_vars

\* C7, witness: "Clear Input" pressed on a store of three records, after an
\* extraction whose file write failed.
C7_Witness ==
    /\ run.clicked = "clear"
    /\ run.previous = "dump"
    /\ Len(patients_data(1)) = 3

C8_Alive ==
    /\ \A s \in Sessions : pc[s] /= "crashed"
    /\ Ending(run) /= "none" => pc[run.session] = "idle"

C8_RetryStep ==
    \A s \in Sessions :
        Ending(run) /= "none" /\ ExtractionSucceeded(s) =>
            /\ Len(patients_data(s)') = Len(patients_data(s)) + 1
            /\ patients_data(s)'[Len(patients_data(s)')].id = patient_id(s)
            /\ patient_id(s)' = patient_id(s) + 1

\* C8: no failure is fatal. No script run ends in an unhandled exception;
\* after a run that ended in a warning or an error the session is idle
\* again; and the next extract action whose chain call succeeds appends a
\* record with the next id.
C8_NoFailureIsFatal == []C8_Alive /\ [][C8_RetryStep]_vars

\* C8, witness: a record saved by the run that followed a failed file write.
C8_Witness ==
    /\ run.previous = "dump"
    /\ run.clicked = "extract" /\ run.failed = "none" /\ run.result /= <<>>
    /\ Len(patients_data(1)) = 2
    /\ file = dumps(patients_data(1))

C9_KeptStep(s) ==
    /\ "error" \in run'.shown
    /\ patients_data(s)' = Append(patients_data(s), NewRecord(s))
    /\ patient_id(s)' = patient_id(s) + 1

C9_WriteFailedStep ==
    \A s \in Sessions :
        WriteFailed(s) => C9_KeptStep(s) /\ file' = file

\* C9 as stated: when the write of the file fails after a successful
\* extraction, an error is shown, the new record stays in the store, the
\* counter stays advanced, and the file keeps its previous content.
C9_FileKeptOnWriteFailure == [][C9_WriteFailedStep]_vars

C9_RecordKeptStep ==
    \A s \in Sessions :
        WriteFailed(s) =>
            /\ C9_KeptStep(s)
            /\ run'.failed = "open" => file' = file
            /\ run'.failed = "dump" =>
                   IsPrefix(file', dumps(patients_data(s)'))

\* C9, amended: when the write of the file fails after a successful
\* extraction, an error is shown, the new record stays in the store and the
\* counter stays advanced; the file keeps its previous content if it could
\* not be opened, and otherwise it has been truncated and holds no more
\* than a beginning (possibly nothing) of the new serialization.
C9_RecordKeptOnWriteFailure == [][C9_RecordKeptStep]_vars

\* C9, witness: the write of the second record failed half-way; the record
\* is in the store and the file is neither empty nor what it was.
C9_Witness ==
    /\ run.clicked = "extract" /\ run.failed = "dump" /\ "error" \in run.shown
    /\ Len(patients_data(1)) = 2
    /\ patient_id(1) = 3
    /\ file /= <<>>
    /\ file /= dumps(<<patients_data(1)[1]>>)

----------------------------------------------------------------------------
\* Two sessions (SpecTwo).

\* This step is the end of session s's write of the file, without an error.
WriteStep(s) == pc[s] = "writing" /\ pc'[s] = "idle" /\ run'.failed = "none"

\* A step of session s leaves the store and the counter of the others alone.
PrivateStep(s) ==
    run'.session = s =>
        \A t \in Sessions \ {s} : session_state'[t] = session_state[t]

C10_ExactStep ==
    \A s \in Sessions :
        /\ PrivateStep(s)
        /\ WriteStep(s) => file' = dumps(patients_data(s)')

C10_OverlayStep ==
    \A s \in Sessions :
        /\ PrivateStep(s)
        /\ WriteStep(s) =>
               /\ IsPrefix(dumps(patients_data(s)'), file')
               /\ Len(file) <= Len(dumps(patients_data(s)')) =>
                      file' = dumps(patients_data(s)')

====
